---- MODULE Spec2Model ----
(***************************************************************************)
(* Response decoders of the R502 fingerprint sensor driver                 *)
(* (src/src/responses.rs).  Every operation of the file is a pure function *)
(* of a borrowed byte slice, a single byte or a SystemParameters value.    *)
(* The state machine draws one input, applies one operation to it and      *)
(* records the outcome: a returned value, or a panic (Rust's bounds checks *)
(* and the explicit panic! arms of the byte-to-enum conversions).          *)
(***************************************************************************)
EXTENDS Integers, Sequences, FiniteSets, TLC

VARIABLES input, op, result

vars == <<input, op, result>>

(***************************************************************************)
(* Bounds of the input space.                                              *)
(***************************************************************************)
MaxLen == 29

MaxSeed == 2

Byte == 0 .. 255

U16 == 0 .. (2^16 - 1)

\* A u32 value hi * 2^16 + lo, carried as its two 16-bit halves (the model
\* checker's integers are 32-bit signed and cannot hold every u32).
U32(hi, lo) == [hi |-> hi, lo |-> lo]

(***************************************************************************)
(* Outcomes of a call.  The functions of responses.rs return Self; the     *)
(* only other way out of a call is a panic.  No function of the file       *)
(* returns a Result or an Option.                                          *)
(***************************************************************************)
Ok(v) == [kind |-> "ok", value |-> v]

Panic(msg) == [kind |-> "panic", msg |-> msg]

IsOk(r) == r.kind = "ok"

AllOk(fields) == \A i \in 1 .. Len(fields) : IsOk(fields[i])

\* Struct-expression fields are evaluated in the order written; the first
\* panic unwinds out of the function.
FirstPanic(fields) ==
    fields[CHOOSE i \in 1 .. Len(fields) :
               /\ ~IsOk(fields[i])
               /\ \A j \in 1 .. (i - 1) : IsOk(fields[j])]

(***************************************************************************)
(* Slice indexing and the byteorder reads.                                 *)
(***************************************************************************)
\* payload[i]  (0-based, bounds-checked)
Index(payload, i) ==
    IF i < Len(payload)
    THEN Ok(payload[i + 1])
    ELSE Panic(<<"index out of bounds", i>>)

Slice_padded(payload, lo, hi) ==
    Ok([i \in 1 .. (hi - lo) |->
           IF lo + i <= Len(payload) THEN payload[lo + i] ELSE 0])

\* &payload[lo..hi]  (half-open, 0-based, bounds-checked)
Slice(payload, lo, hi) ==
    IF hi <= Len(payload)
    THEN Ok(SubSeq(payload, lo + 1, hi))
    ELSE Panic(<<"range end index out of range", hi>>)

\* BigEndian::read_u16(buf): the first two bytes of buf, most significant
\* first; bytes of buf after the second are not read.
read_u16(buf) ==
    IF Len(buf) < 2
    THEN Panic(<<"range end index out of range", 2>>)
    ELSE Ok(buf[1] * 256 + buf[2])

read_u32_le(buf) ==
    IF Len(buf) < 4
    THEN Panic(<<"range end index out of range", 4>>)
    ELSE Ok(U32(buf[4] * 256 + buf[3], buf[2] * 256 + buf[1]))

\* BigEndian::read_u32(buf): the first four bytes of buf.
read_u32(buf) ==
    IF Len(buf) < 4
    THEN Panic(<<"range end index out of range", 4>>)
    ELSE Ok(U32(buf[1] * 256 + buf[2], buf[3] * 256 + buf[4]))

Read(buf, read) == IF read = "u16" THEN read_u16(buf) ELSE read_u32(buf)

\* BigEndian::read_uN(&payload[e.lo .. e.hi])
ReadField(payload, e) ==
    LET s == Slice(payload, e.lo, e.hi)
    IN  IF IsOk(s) THEN Read(s.value, e.read) ELSE s

(***************************************************************************)
(* Byte-to-enum conversions.                                               *)
(***************************************************************************)
PasswordVerificationState_from_err(byte) ==
    CASE byte = 0  -> Ok("Correct")
      [] byte = 19 -> Ok("Incorrect")
      [] byte = 1  -> Ok("Error")
      [] OTHER     -> [kind |-> "err", msg |-> <<"Invalid VfyPwdResult", byte>>]

PasswordVerificationState_from_default(byte) ==
    CASE byte = 0  -> Ok("Correct")
      [] byte = 19 -> Ok("Incorrect")
      [] OTHER     -> Ok("Error")

PasswordVerificationState_from_swapped(byte) ==
    CASE byte = 0  -> Ok("Correct")
      [] byte = 1  -> Ok("Incorrect")
      [] byte = 19 -> Ok("Error")
      [] OTHER     -> Panic(<<"Invalid VfyPwdResult", byte>>)

PasswordVerificationState_from(byte) ==
    CASE byte = 0  -> Ok("Correct")
      [] byte = 19 -> Ok("Incorrect")
      [] byte = 1  -> Ok("Error")
      [] OTHER     -> Panic(<<"Invalid VfyPwdResult", byte>>)

GenImgStatus_from_shifted(byte) ==
    CASE byte = 0 -> Ok("Success")
      [] byte = 1 -> Ok("FingerNotDetected")
      [] byte = 2 -> Ok("PacketError")
      [] byte = 3 -> Ok("ImageNotCaptured")
      [] OTHER    -> Panic(<<"Invalid GenImgStatus", byte>>)

GenImgStatus_from(byte) ==
    CASE byte = 0 -> Ok("Success")
      [] byte = 1 -> Ok("PacketError")
      [] byte = 2 -> Ok("FingerNotDetected")
      [] byte = 3 -> Ok("ImageNotCaptured")
      [] OTHER    -> Panic(<<"Invalid GenImgStatus", byte>>)

(***************************************************************************)
(* Field extractions of each decoder: the 0-based half-open range handed   *)
(* to the read, and the read called on it.                                 *)
(***************************************************************************)
SystemParameters_reads_baud14 ==
    [status_register        |-> [lo |-> 0,  hi |-> 2,  read |-> "u16"],
     system_identifier_code |-> [lo |-> 2,  hi |-> 4,  read |-> "u16"],
     finger_library_size    |-> [lo |-> 4,  hi |-> 6,  read |-> "u16"],
     security_level         |-> [lo |-> 6,  hi |-> 8,  read |-> "u16"],
     device_address         |-> [lo |-> 8,  hi |-> 12, read |-> "u32"],
     packet_size            |-> [lo |-> 12, hi |-> 14, read |-> "u16"],
     baud_setting           |-> [lo |-> 14, hi |-> 16, read |-> "u16"]]

SystemParameters_reads_addr10 ==
    [status_register        |-> [lo |-> 0,  hi |-> 2,  read |-> "u16"],
     system_identifier_code |-> [lo |-> 2,  hi |-> 4,  read |-> "u16"],
     finger_library_size    |-> [lo |-> 4,  hi |-> 6,  read |-> "u16"],
     security_level         |-> [lo |-> 6,  hi |-> 8,  read |-> "u16"],
     device_address         |-> [lo |-> 10, hi |-> 14, read |-> "u32"],
     packet_size            |-> [lo |-> 12, hi |-> 14, read |-> "u16"],
     baud_setting           |-> [lo |-> 12, hi |-> 16, read |-> "u16"]]

SystemParameters_reads ==
    [status_register        |-> [lo |-> 0,  hi |-> 2,  read |-> "u16"],
     system_identifier_code |-> [lo |-> 2,  hi |-> 4,  read |-> "u16"],
     finger_library_size    |-> [lo |-> 4,  hi |-> 6,  read |-> "u16"],
     security_level         |-> [lo |-> 6,  hi |-> 8,  read |-> "u16"],
     device_address         |-> [lo |-> 8,  hi |-> 12, read |-> "u32"],
     packet_size            |-> [lo |-> 12, hi |-> 14, read |-> "u16"],
     baud_setting           |-> [lo |-> 12, hi |-> 16, read |-> "u16"]]

ReadSysParaResult_reads ==
    [address  |-> [lo |-> 2,  hi |-> 6,  read |-> "u32"],
     checksum |-> [lo |-> 26, hi |-> 28, read |-> "u16"]]

VfyPwdResult_reads ==
    [address  |-> [lo |-> 2,  hi |-> 6,  read |-> "u32"],
     checksum |-> [lo |-> 10, hi |-> 12, read |-> "u16"]]

GenImgResult_reads ==
    [address  |-> [lo |-> 2,  hi |-> 6,  read |-> "u32"],
     checksum |-> [lo |-> 10, hi |-> 12, read |-> "u16"]]

(***************************************************************************)
(* The decoders.                                                           *)
(***************************************************************************)
SystemParameters_from_payload(payload) ==
    LET t == SystemParameters_reads
        status_register        == ReadField(payload, t.status_register)
        system_identifier_code == ReadField(payload, t.system_identifier_code)
        finger_library_size    == ReadField(payload, t.finger_library_size)
        security_level         == ReadField(payload, t.security_level)
        device_address         == ReadField(payload, t.device_address)
        packet_size            == ReadField(payload, t.packet_size)
        baud_setting           == ReadField(payload, t.baud_setting)
        fields == <<status_register, system_identifier_code, finger_library_size,
                    security_level, device_address, packet_size, baud_setting>>
    IN  IF AllOk(fields)
        THEN Ok([status_register        |-> status_register.value,
                 system_identifier_code |-> system_identifier_code.value,
                 finger_library_size    |-> finger_library_size.value,
                 security_level         |-> security_level.value,
                 device_address         |-> device_address.value,
                 packet_size            |-> packet_size.value,
                 baud_setting           |-> baud_setting.value])
        ELSE FirstPanic(fields)

ReadSysParaResult_from_payload(payload) ==
    LET t == ReadSysParaResult_reads
        address           == ReadField(payload, t.address)
        confirmation_code == Index(payload, 9)
        checksum          == ReadField(payload, t.checksum)
        body              == Slice(payload, 10, 26)
        system_parameters == IF IsOk(body)
                             THEN SystemParameters_from_payload(body.value)
                             ELSE body
        fields == <<address, confirmation_code, checksum, system_parameters>>
    IN  IF AllOk(fields)
        THEN Ok([address           |-> address.value,
                 confirmation_code |-> confirmation_code.value,
                 system_parameters |-> system_parameters.value,
                 checksum          |-> checksum.value])
        ELSE FirstPanic(fields)

VfyPwdResult_from_payload(payload) ==
    LET t == VfyPwdResult_reads
        address           == ReadField(payload, t.address)
        byte              == Index(payload, 9)
        confirmation_code == IF IsOk(byte)
                             THEN PasswordVerificationState_from(byte.value)
                             ELSE byte
        checksum          == ReadField(payload, t.checksum)
        fields == <<address, confirmation_code, checksum>>
    IN  IF AllOk(fields)
        THEN Ok([address           |-> address.value,
                 confirmation_code |-> confirmation_code.value,
                 checksum          |-> checksum.value])
        ELSE FirstPanic(fields)

GenImgResult_from_payload(payload) ==
    LET t == GenImgResult_reads
        address           == ReadField(payload, t.address)
        byte              == Index(payload, 9)
        confirmation_code == IF IsOk(byte)
                             THEN GenImgStatus_from(byte.value)
                             ELSE byte
        checksum          == ReadField(payload, t.checksum)
        fields == <<address, confirmation_code, checksum>>
    IN  IF AllOk(fields)
        THEN Ok([address           |-> address.value,
                 confirmation_code |-> confirmation_code.value,
                 checksum          |-> checksum.value])
        ELSE FirstPanic(fields)

(***************************************************************************)
(* Status-register predicates.                                             *)
(***************************************************************************)
\* 1u16 << k
Shl16(k) == (2^k) % 2^16

\* a & b on 16-bit operands
RECURSIVE BitAnd(_, _, _)
BitAnd(a, b, n) ==
    IF n = 0
    THEN 0
    ELSE (IF a % 2 = 1 /\ b % 2 = 1 THEN 1 ELSE 0)
         + 2 * BitAnd(a \div 2, b \div 2, n - 1)

busy_nonzero(sp) == sp.status_register # 0

busy(sp) == BitAnd(sp.status_register, Shl16(0), 16) # 0

has_finger_match(sp) == BitAnd(sp.status_register, Shl16(1), 16) # 0

password_ok(sp) == BitAnd(sp.status_register, Shl16(2), 16) # 0

has_valid_image(sp) == BitAnd(sp.status_register, Shl16(3), 16) # 0

(***************************************************************************)
(* Inputs.  A payload is any byte slice the caller hands over; the bytes   *)
(* of a generated payload differ from position to position, and the        *)
(* confirmation-code byte at offset 9 ranges over every byte value.        *)
(***************************************************************************)
GenByte(seed, i) == ((seed + 1) * 37 * (i + 1) + 101 * seed + 50) % 256

MakePayload(len, seed, cc) ==
    [i \in 1 .. len |-> IF i = 10 THEN cc ELSE GenByte(seed, i - 1)]

Payloads ==
    { MakePayload(len, seed, cc) : len \in 0 .. MaxLen, seed \in 0 .. MaxSeed, cc \in Byte }

\* SystemParameters is a plain struct of public integer fields.
ParamsInputs ==
    { [status_register        |-> sr,
       system_identifier_code |-> 9,
       finger_library_size    |-> 200,
       security_level         |-> 3,
       device_address         |-> U32(2^16 - 1, 2^16 - 1),
       packet_size            |-> 2,
       baud_setting           |-> 6] : sr \in U16 }

NoResult == [kind |-> "none"]

Init ==
    /\ \/ \E payload \in Payloads : input = [kind |-> "payload", payload |-> payload]
       \/ \E byte \in Byte : input = [kind |-> "byte", byte |-> byte]
       \/ \E sp \in ParamsInputs : input = [kind |-> "params", sp |-> sp]
    /\ op = "none"
    /\ result = NoResult

(***************************************************************************)
(* One action per public operation: the caller applies it to the input it  *)
(* holds and keeps the outcome.                                            *)
(***************************************************************************)
DecodeReadSysPara ==
    /\ op = "none"
    /\ input.kind = "payload"
    /\ op' = "ReadSysPara"
    /\ result' = ReadSysParaResult_from_payload(input.payload)
    /\ UNCHANGED input

DecodeVfyPwd ==
    /\ op = "none"
    /\ input.kind = "payload"
    /\ op' = "VfyPwd"
    /\ result' = VfyPwdResult_from_payload(input.payload)
    /\ UNCHANGED input

DecodeGenImg ==
    /\ op = "none"
    /\ input.kind = "payload"
    /\ op' = "GenImg"
    /\ result' = GenImgResult_from_payload(input.payload)
    /\ UNCHANGED input

DecodeSystemParameters ==
    /\ op = "none"
    /\ input.kind = "payload"
    /\ op' = "SystemParameters"
    /\ result' = SystemParameters_from_payload(input.payload)
    /\ UNCHANGED input

ConvertPasswordVerificationState ==
    /\ op = "none"
    /\ input.kind = "byte"
    /\ op' = "PasswordVerificationState"
    /\ result' = PasswordVerificationState_from(input.byte)
    /\ UNCHANGED input

ConvertGenImgStatus ==
    /\ op = "none"
    /\ input.kind = "byte"
    /\ op' = "GenImgStatus"
    /\ result' = GenImgStatus_from(input.byte)
    /\ UNCHANGED input

CallBusy ==
    /\ op = "none"
    /\ input.kind = "params"
    /\ op' = "busy"
    /\ result' = Ok(busy(input.sp))
    /\ UNCHANGED input

CallHasFingerMatch ==
    /\ op = "none"
    /\ input.kind = "params"
    /\ op' = "has_finger_match"
    /\ result' = Ok(has_finger_match(input.sp))
    /\ UNCHANGED input

CallPasswordOk ==
    /\ op = "none"
    /\ input.kind = "params"
    /\ op' = "password_ok"
    /\ result' = Ok(password_ok(input.sp))
    /\ UNCHANGED input

CallHasValidImage ==
    /\ op = "none"
    /\ input.kind = "params"
    /\ op' = "has_valid_image"
    /\ result' = Ok(has_valid_image(input.sp))
    /\ UNCHANGED input

Next ==
    \/ DecodeReadSysPara
    \/ DecodeVfyPwd
    \/ DecodeGenImg
    \/ DecodeSystemParameters
    \/ ConvertPasswordVerificationState
    \/ ConvertGenImgStatus
    \/ CallBusy
    \/ CallHasFingerMatch
    \/ CallPasswordOk
    \/ CallHasValidImage

Spec == Init /\ [][Next]_vars

(***************************************************************************)
(* Vocabulary of the properties: the values the documentation promises,    *)
(* written from the byte layout rather than from the decoders.             *)
(***************************************************************************)
\* The big-endian 16-bit integer of bytes lo .. lo+2 of p (0-based).
BE16(p, lo) == p[lo + 1] * 256 + p[lo + 2]

\* The big-endian 32-bit integer of bytes lo .. lo+4 of p, as U32 halves.
BE32(p, lo) == U32(BE16(p, lo), BE16(p, lo + 2))

\* The bytes a fixture builder writes for a 16-bit / 32-bit integer.
U16Bytes(v) == <<v \div 256, v % 256>>

U32Bytes(v) == U16Bytes(v.hi) \o U16Bytes(v.lo)

\* Bytes lo .. hi of p (0-based, half-open).
Range(p, lo, hi) == SubSeq(p, lo + 1, hi)

\* Bit k of a 16-bit value.
BitSet(x, k) == (x \div 2^k) % 2 = 1

PwdCodes == {0, 1, 19}

ImgCodes == {0, 1, 2, 3}

Applied(name) == op = name /\ input.kind = "payload"

\* C1: for every payload of at least 28 bytes, whatever its header,
\* identifier, length, confirmation-code and checksum bytes, the ReadSysPara
\* decoder succeeds with address = BE32 of bytes 2..6, confirmation_code =
\* the raw byte at offset 9, checksum = BE16 of bytes 26..28 and
\* system_parameters = the SystemParameters decoding of bytes 10..26.
C1_ReadSysParaDecodes ==
    (Applied("ReadSysPara") /\ Len(input.payload) >= 28) =>
        /\ result.kind = "ok"
        /\ result.value.address = BE32(input.payload, 2)
        /\ result.value.confirmation_code = input.payload[10]
        /\ result.value.checksum = BE16(input.payload, 26)
        /\ Ok(result.value.system_parameters)
               = SystemParameters_from_payload(Range(input.payload, 10, 26))

C1_Witness ==
    /\ Applied("ReadSysPara")
    /\ Len(input.payload) > 28
    /\ input.payload[10] = 255
    /\ BE16(input.payload, 0) # 239 * 256 + 1
    /\ result.kind = "ok"
    /\ result.value.address.hi >= 2^15
    /\ result.value.confirmation_code = 255

\* C2: for every 16-byte body the SystemParameters decoder returns
\* status_register, system_identifier_code, finger_library_size,
\* security_level and packet_size equal to BE16 of body bytes 0..2, 2..4,
\* 4..6, 6..8 and 12..14, and device_address equal to BE32 of bytes 8..12;
\* so in a 28-byte ReadSysPara frame the bytes at those offsets of the body
\* are exactly the encodings of the integers decoded (fixture round trip).
C2_SystemParametersFields ==
    /\ (Applied("SystemParameters") /\ Len(input.payload) = 16) =>
          /\ result.kind = "ok"
          /\ result.value.status_register = BE16(input.payload, 0)
          /\ result.value.system_identifier_code = BE16(input.payload, 2)
          /\ result.value.finger_library_size = BE16(input.payload, 4)
          /\ result.value.security_level = BE16(input.payload, 6)
          /\ result.value.device_address = BE32(input.payload, 8)
          /\ result.value.packet_size = BE16(input.payload, 12)
    /\ (Applied("ReadSysPara") /\ Len(input.payload) = 28) =>
          /\ result.kind = "ok"
          /\ LET sp == result.value.system_parameters
                 body == Range(input.payload, 10, 26)
             IN  /\ U16Bytes(sp.status_register) = Range(body, 0, 2)
                 /\ U16Bytes(sp.system_identifier_code) = Range(body, 2, 4)
                 /\ U16Bytes(sp.finger_library_size) = Range(body, 4, 6)
                 /\ U16Bytes(sp.security_level) = Range(body, 6, 8)
                 /\ U32Bytes(sp.device_address) = Range(body, 8, 12)
                 /\ U16Bytes(sp.packet_size) = Range(body, 12, 14)

C2_Witness ==
    /\ Applied("ReadSysPara")
    /\ Len(input.payload) = 28
    /\ result.kind = "ok"
    /\ result.value.system_parameters.device_address.hi
           # result.value.system_parameters.device_address.lo
    /\ result.value.system_parameters.status_register >= 256
    /\ result.value.system_parameters.packet_size % 256 # 0

\* C3: for every payload of at least 12 bytes whose byte at offset 9 is 0x00,
\* 0x13 or 0x01, the VfyPwd decoder succeeds with confirmation_code Correct,
\* Incorrect or Error respectively, address = BE32 of bytes 2..6 and
\* checksum = BE16 of bytes 10..12.
C3_VfyPwdDecodes ==
    (Applied("VfyPwd") /\ Len(input.payload) >= 12 /\ input.payload[10] \in PwdCodes) =>
        /\ result.kind = "ok"
        /\ result.value.confirmation_code =
               (CASE input.payload[10] = 0  -> "Correct"
                  [] input.payload[10] = 19 -> "Incorrect"
                  [] input.payload[10] = 1  -> "Error")
        /\ result.value.address = BE32(input.payload, 2)
        /\ result.value.checksum = BE16(input.payload, 10)

C3_Witness ==
    /\ Applied("VfyPwd")
    /\ Len(input.payload) = 12
    /\ input.payload[10] = 19
    /\ result.kind = "ok"
    /\ result.value.confirmation_code = "Incorrect"

\* C4: for every payload of at least 12 bytes whose byte at offset 9 is 0x00,
\* 0x01, 0x02 or 0x03, the GenImg decoder succeeds with confirmation_code
\* Success, PacketError, FingerNotDetected or ImageNotCaptured respectively,
\* address = BE32 of bytes 2..6 and checksum = BE16 of bytes 10..12.
C4_GenImgDecodes ==
    (Applied("GenImg") /\ Len(input.payload) >= 12 /\ input.payload[10] \in ImgCodes) =>
        /\ result.kind = "ok"
        /\ result.value.confirmation_code =
               (CASE input.payload[10] = 0 -> "Success"
                  [] input.payload[10] = 1 -> "PacketError"
                  [] input.payload[10] = 2 -> "FingerNotDetected"
                  [] input.payload[10] = 3 -> "ImageNotCaptured")
        /\ result.value.address = BE32(input.payload, 2)
        /\ result.value.checksum = BE16(input.payload, 10)

C4_Witness ==
    /\ Applied("GenImg")
    /\ Len(input.payload) = 12
    /\ input.payload[10] = 2
    /\ result.kind = "ok"
    /\ result.value.confirmation_code = "FingerNotDetected"

\* The confirmation-code byte an operation was handed, when it was handed
\* one outside the closed set of its enum.
InvalidPwdByte ==
    \/ op = "PasswordVerificationState" /\ input.byte \notin PwdCodes
    \/ Applied("VfyPwd") /\ Len(input.payload) >= 10 /\ input.payload[10] \notin PwdCodes

InvalidImgByte ==
    \/ op = "GenImgStatus" /\ input.byte \notin ImgCodes
    \/ Applied("GenImg") /\ Len(input.payload) >= 10 /\ input.payload[10] \notin ImgCodes

CodeByte == IF input.kind = "byte" THEN input.byte ELSE input.payload[10]

\* C5: for every byte outside {0x00, 0x01, 0x13} the password conversion, and
\* for every byte outside {0x00 .. 0x03} the image-status conversion, fails
\* and returns no variant; a VfyPwd or GenImg decode of a payload with such a
\* byte at offset 9 never yields a result.
C5_UnknownCodeYieldsNothing ==
    (InvalidPwdByte \/ InvalidImgByte) => result.kind # "ok"

C5_Witness ==
    /\ Applied("VfyPwd")
    /\ Len(input.payload) >= 12
    /\ input.payload[10] = 2
    /\ result.kind # "ok"

\* C6: decoding a payload shorter than the decoder's fixed length always
\* fails and never produces a result: ReadSysPara for every length 0..27,
\* VfyPwd and GenImg for every length 0..11, whatever the bytes present.
C6_ShortPayloadFails ==
    /\ (Applied("ReadSysPara") /\ Len(input.payload) < 28) => result.kind = "panic"
    /\ (Applied("VfyPwd") /\ Len(input.payload) < 12) => result.kind = "panic"
    /\ (Applied("GenImg") /\ Len(input.payload) < 12) => result.kind = "panic"

C6_Witness ==
    /\ Applied("ReadSysPara")
    /\ Len(input.payload) = 27
    /\ result = Panic(<<"range end index out of range", 28>>)

\* C7: for every 16-bit status_register, busy, has_finger_match, password_ok
\* and has_valid_image return true exactly when bit 0, 1, 2 and 3
\* respectively is set; no other bit changes the answer and no value is
\* rejected.
C7_StatusBits ==
    /\ op = "busy" => result = Ok(BitSet(input.sp.status_register, 0))
    /\ op = "has_finger_match" => result = Ok(BitSet(input.sp.status_register, 1))
    /\ op = "password_ok" => result = Ok(BitSet(input.sp.status_register, 2))
    /\ op = "has_valid_image" => result = Ok(BitSet(input.sp.status_register, 3))

C7_Witness ==
    /\ op = "busy"
    /\ input.sp.status_register = 2^16 - 2
    /\ result = Ok(FALSE)

\* C8 (as stated): a confirmation-code byte outside its closed set is
\* reported as a returned error value of a fallible result type, not by
\* aborting execution.
C8_ReturnsErrorValue ==
    (InvalidPwdByte \/ InvalidImgByte) => result.kind = "err"

\* C8 (amended): a confirmation-code byte outside its closed set makes the
\* conversion panic with "Invalid VfyPwdResult" / "Invalid GenImgStatus" and
\* the offending byte; the VfyPwd / GenImg decoder that called it unwinds
\* with that same panic.  No error value is returned.
C8_PanicsOnUnknownCode ==
    /\ InvalidPwdByte => result = Panic(<<"Invalid VfyPwdResult", CodeByte>>)
    /\ InvalidImgByte => result = Panic(<<"Invalid GenImgStatus", CodeByte>>)

C8_Witness ==
    /\ op = "PasswordVerificationState"
    /\ input.byte = 2
    /\ result = Panic(<<"Invalid VfyPwdResult", 2>>)

\* The table of field extractions of the decoder that was applied, and the
\* payload offset its ranges are relative to.
ReadsOf(name) ==
    CASE name = "ReadSysPara"      -> ReadSysParaResult_reads
      [] name = "VfyPwd"           -> VfyPwdResult_reads
      [] name = "GenImg"           -> GenImgResult_reads
      [] name = "SystemParameters" -> SystemParameters_reads

Width(read) == IF read = "u16" THEN 2 ELSE 4

BigEndianOf(bytes) ==
    IF Len(bytes) = 2 THEN BE16(bytes, 0) ELSE BE32(bytes, 0)

\* C9 (as stated): every field extraction of the four decoders reads from a
\* range whose length equals the width of the field produced (2 bytes for a
\* 16-bit field, 4 for a 32-bit field) and produces the big-endian integer of
\* exactly the bytes of that range; in particular for baud_setting.
C9_RangeMatchesWidth ==
    (op \in {"ReadSysPara", "VfyPwd", "GenImg", "SystemParameters"} /\ result.kind = "ok") =>
        \A f \in DOMAIN ReadsOf(op) :
            LET e == ReadsOf(op)[f]
            IN  /\ e.hi - e.lo = Width(e.read)
                /\ result.value[f] = BigEndianOf(Range(input.payload, e.lo, e.hi))

\* C10: in every decoded SystemParameters baud_setting equals packet_size
\* (both BE16 of body bytes 12..14), and body bytes 14 and 15 (payload bytes
\* 24 and 25 of a ReadSysPara frame) influence no decoded field: payloads
\* differing only in those bytes decode to identical results.
Poke2(p, at, a, b) ==
    [i \in 1 .. Len(p) |-> IF i = at + 1 THEN a ELSE IF i = at + 2 THEN b ELSE p[i]]

PokeBytes == {0, 6, 255}

====
